---- MODULE Spec2Model ----
(***************************************************************************)
(* Justice RollOn: petitions, accounts, evidence, consultations,           *)
(* depositions and the audit log.                                          *)
(*                                                                         *)
(* The database is the state.  Django runs in autocommit mode and none of  *)
(* the views opens a transaction or takes a row lock, so every ORM query   *)
(* of join_petition is a step of its own; the other handlers are one step. *)
(*                                                                         *)
(* Spec                  the views and the admin site on a database that   *)
(*                       holds the demo accounts and no petition yet       *)
(* SpecSupport           concurrent join_petition requests on the seeded   *)
(*                       database                                          *)
(* SpecSupportModerated  join_petition requests handled one at a time on   *)
(*                       the seeded database while the admin site changes  *)
(*                       petition statuses                                 *)
(* SpecCore              submit_for_review, approve_petition and           *)
(*                       join_petition on the seeded database while the    *)
(*                       admin site changes petition statuses              *)
(* SpecDrafts            petition creation with every description and      *)
(*                       request body, and submission                      *)
(* SpecAccounts          registration (HTML and API) and UserAdmin role    *)
(*                       edits                                             *)
(* SpecBookings          consultation bookings of the seeded slots         *)
(* SpecDepositions       evidence attached to the seeded depositions       *)
(* SpecAudit             audit entries, AuditLogAdmin and account deletion *)
(* SpecEvidence          evidence uploads and EvidenceAdmin edits          *)
(* SpecAttach            petitions created with evidence ids, uploads and  *)
(*                       submissions on the seeded database                *)
(* SpecFrame             the petition operations and uploads next to audit *)
(*                       entries                                           *)
(* SpecPrecedence        the core operations while the admin site changes  *)
(*                       an account's role                                 *)
(* SpecViewSet           update, destroy and create of the REST viewset    *)
(* SpecOps               create, submit_for_review, approve_petition and   *)
(*                       join_petition on the seeded database              *)
(* SpecApi               the same with viewset updates                     *)
(***************************************************************************)
EXTENDS Integers, FiniteSets, Sequences, Bags, TLC

(* ---------------------------------------------------------------------- *)
(* Bounds                                                                  *)
(* ---------------------------------------------------------------------- *)
\* petitions that can be created through the views
MaxPetitions == 1
\* join_petition requests that can be in flight at the same time
MaxReqs == 2
\* accounts that can be registered on top of the demo accounts
MaxAccounts == 1
\* evidence items that can be uploaded on top of the seeded ones
MaxEvidence == 1
\* booking rows, deposition-evidence rows and audit entries that can be stored
MaxBookings == 2
MaxLinks == 2
MaxAudit == 2

(* ---------------------------------------------------------------------- *)
(* Program constants                                                       *)
(* ---------------------------------------------------------------------- *)
MinDescriptionLength == 50
SeededPetitions == 2
SeedTime == 1
SeededEvidence == 2
SeededSlots == 3
SeededDepositions == 2
MinPasswordLength == 8

Roles == {"admin", "lawyer", "citizen"}
Statuses == {"draft", "pending", "published", "rejected"}
Visibilities == {"public", "private"}

\* accounts of seed_demo.py
Users == {"admin", "lawyer1", "citizen1", "citizen2"}
SeedRole == [u \in Users |->
               IF u = "admin" THEN "admin"
               ELSE IF u = "lawyer1" THEN "lawyer" ELSE "citizen"]

\* primary keys: those the views hand out, those of the seed script, and
\* all the keys a request can name
PetIds == (SeededPetitions + 1)..(SeededPetitions + MaxPetitions)
SeededIds == 1..SeededPetitions
Rows == PetIds \cup SeededIds
\* readings of the clock after the seed script's
Times == {SeedTime + 1, SeedTime + 2}
NullTime == 0

\* A description is kept as the length of the text and the length of
\* text.strip(): the two differ when the text has surrounding blanks.
Description(raw, stripped) == [raw |-> raw, stripped |-> stripped]
Descriptions == {Description(0, 0), Description(49, 49),
                 Description(50, 50), Description(52, 49)}
\* an empty and a long enough text
LifecycleDescriptions == {Description(0, 0), Description(50, 50)}
SeedDescription1 == Description(55, 55)
SeedDescription2 == Description(57, 57)

VARIABLES role, petitions, reqs, resp, evidences, bookings, links, audit

\* the tables the petition views do not write
records == <<evidences, bookings, links, audit>>

vars == <<role, petitions, reqs, resp, evidences, bookings, links, audit>>

(* ---------------------------------------------------------------------- *)
(* Rows                                                                    *)
(* ---------------------------------------------------------------------- *)
NoUser == "nobody"

\* an unused primary key
NoPetition == [exists |-> FALSE, creator |-> NoUser, creator_role |-> "citizen",
               description |-> Description(0, 0), visibility |-> "public",
               status |-> "draft", supporters |-> {}, supporter_count |-> 0,
               published_at |-> NullTime, evidences |-> {}]

\* Petition row with the model's defaults: status draft, no supporters,
\* supporter_count 0, published_at NULL, no evidence attached.  creator_role records the role the
\* creator had when the row was inserted (history, not a column).
Petition(creator, creatorRole, description, visibility, status, publishedAt) ==
    [exists |-> TRUE, creator |-> creator, creator_role |-> creatorRole,
     description |-> description, visibility |-> visibility,
     status |-> status, supporters |-> {}, supporter_count |-> 0,
     published_at |-> publishedAt, evidences |-> {}]

\* a join_petition request in flight: its position, request.user, pk and the
\* supporter_count of the petition object it holds in memory
Request(pc, user, pet, count) ==
    [pc |-> pc, user |-> user, pet |-> pet, supporter_count |-> count]

Response(code, key, text) == [code |-> code, key |-> key, text |-> text]
NoResponse == Response(0, "none", "none")

\* get_object_or_404(Petition, pk=pk)
Found(p) == petitions[p].exists
\* the lookup without its status filter
FoundAnyStatus(p) == petitions[p].exists

\* get_object_or_404(Petition, pk=pk, status="published")
\* a lookup that also finds petitions under review
FoundPublishedOrPending(p) ==
    petitions[p].exists /\ petitions[p].status \in {"published", "pending"}

FoundPublished(p) == petitions[p].exists /\ petitions[p].status = "published"

FreeIds == {p \in PetIds : ~petitions[p].exists}
NewId == CHOOSE p \in FreeIds : \A q \in FreeIds : p <= q

(* ---------------------------------------------------------------------- *)
(* Evidence, consultations, depositions, audit log                         *)
(* ---------------------------------------------------------------------- *)
VerificationStatuses == {"pending", "verified", "rejected"}

EvidenceIds == 1..(SeededEvidence + MaxEvidence)
SeededEvidenceIds == 1..SeededEvidence
SlotIds == 1..SeededSlots
DepositionIds == 1..SeededDepositions
\* values of DepositionEvidence.order
Orders == {0, 1, 2}

NoEvidence == [exists |-> FALSE, uploader |-> NoUser, verification_status |-> "pending"]
Evidence(uploader, verificationStatus) ==
    [exists |-> TRUE, uploader |-> uploader, verification_status |-> verificationStatus]

FreeEvidenceIds == {e \in EvidenceIds : ~evidences[e].exists}
NewEvidenceId == CHOOSE e \in FreeEvidenceIds : \A f \in FreeEvidenceIds : e <= f

\* rows of ConsultationBooking and DepositionEvidence; each table is a bag,
\* so that two rows with the same columns are two rows
ConsultationBooking(slot, user, confirmed) ==
    [slot |-> slot, user |-> user, confirmed |-> confirmed]
DepositionEvidence(deposition, evidence, order) ==
    [deposition |-> deposition, evidence |-> evidence, order |-> order]

\* AuditLog row; user is NoUser when the column is NULL
AuditLog(user, action, timestamp, meta) ==
    [user |-> user, action |-> action, timestamp |-> timestamp, meta |-> meta]

\* the seed's slots belong to the lawyer; its depositions to the lawyer and
\* to citizen1
SlotLawyer(slot) == "lawyer1"
DepositionAuthor(deposition) == IF deposition = 1 THEN "lawyer1" ELSE "citizen1"

\* descriptions of audited actions
AuditActions == {"created petition", "uploaded evidence"}

\* context of an audited action: null or an object id
AuditMetas == {"null", "pk=1"}

\* evidence ids a request can name: the primary keys and one that no row has
MissingEvidenceId == SeededEvidence + MaxEvidence + 1
EvidenceRequestIds == EvidenceIds \cup {MissingEvidenceId}
\* the evidence ids of a request: none, one or two of them
EvidenceIdSets == {ids \in SUBSET EvidenceRequestIds : Cardinality(ids) <= 2}
\* the accounts that post the form
FormUsers == {"admin", "citizen1", "citizen2"}

\* no evidence, booking, deposition-evidence row or audit entry
NoRecords ==
    /\ evidences = [e \in EvidenceIds |-> NoEvidence]
    /\ bookings = EmptyBag
    /\ links = EmptyBag
    /\ audit = << >>

\* evidence of seed_demo.py; the script books nothing, attaches nothing and
\* logs nothing
SeededRecords ==
    /\ evidences = [e \in EvidenceIds |->
         IF e = 1 THEN Evidence("citizen1", "verified")
         ELSE IF e = 2 THEN Evidence("citizen2", "pending")
         ELSE NoEvidence]
    /\ bookings = EmptyBag
    /\ links = EmptyBag
    /\ audit = << >>

(* ---------------------------------------------------------------------- *)
(* Initial states                                                          *)
(* ---------------------------------------------------------------------- *)
\* the demo accounts, no petition
Init ==
    /\ role = SeedRole
    /\ petitions = [p \in Rows |-> NoPetition]
    /\ reqs = EmptyBag
    /\ resp = NoResponse
    /\ NoRecords

\* the database after seed_demo.py
InitSeeded ==
    /\ role = SeedRole
    /\ petitions = [p \in Rows |->
         IF p = 1 THEN Petition("citizen1", "citizen", SeedDescription1,
                                "public", "pending", NullTime)
         ELSE IF p = 2 THEN Petition("citizen2", "citizen", SeedDescription2,
                                     "public", "published", SeedTime)
         ELSE NoPetition]
    /\ reqs = EmptyBag
    /\ resp = NoResponse
    /\ SeededRecords

(* ---------------------------------------------------------------------- *)
(* Petition creation                                                       *)
(* ---------------------------------------------------------------------- *)
\* Evidence.objects.filter(id__in=evidence_ids) without the uploader filter
valid_evidences_AnyUploader(u, evidence_ids) ==
    {e \in evidence_ids : e \in EvidenceIds /\ evidences[e].exists}

\* Evidence.objects.filter(id__in=evidence_ids, uploader=request.user)
valid_evidences(u, evidence_ids) ==
    {e \in evidence_ids :
        e \in EvidenceIds /\ evidences[e].exists /\ evidences[e].uploader = u}

\* HTML form view (POST).  Only the role and the presence of title and
\* description are checked; the posted evidence ids are attached after the
\* row is created, when there are any.
petition_create_attach(u, hasTitle, description, visibility, evidence_ids) ==
    /\ FreeIds # {}
    /\ IF role[u] # "citizen"
       THEN /\ resp' = Response(302, "warning", "Only citizens can create petitions.")
            /\ UNCHANGED petitions
       ELSE IF ~hasTitle \/ description.raw = 0
       THEN /\ resp' = Response(302, "warning", "Title and description are required.")
            /\ UNCHANGED petitions
       ELSE /\ petitions' = [petitions EXCEPT ![NewId] =
                 [Petition(u, role[u], description, visibility, "draft", NullTime)
                    EXCEPT !.evidences =
                       IF evidence_ids # {} THEN valid_evidences(u, evidence_ids)
                       ELSE {}]]
            /\ resp' = Response(302, "success", "Petition draft created successfully!")
    /\ UNCHANGED <<role, reqs>>
    /\ UNCHANGED records

\* the same request without evidence ids
petition_create(u, hasTitle, description, visibility) ==
    petition_create_attach(u, hasTitle, description, visibility, {})

\* PetitionCreateSerializer.validate
validate(description) == description.stripped >= MinDescriptionLength

\* request bodies: the keys a client sends; status is a key the forms do
\* not offer
Bodies == [title : BOOLEAN, description : Descriptions,
           visibility : Visibilities, status : Statuses]

\* the HTML form view reads title, description and visibility from
\* request.POST and passes status="draft" itself
petition_create_post(u, post) ==
    petition_create(u, post.title, post.description, post.visibility)

\* the serializer with status among its writable fields
PetitionCreateSerializer_fields_WithStatus ==
    {"title", "description", "category", "visibility", "status"}

\* the serializer with every column of the model writable
PetitionCreateSerializer_fields_All ==
    {"title", "description", "category", "visibility", "status",
     "supporter_count", "published_at"}

\* PetitionCreateSerializer.Meta.fields
PetitionCreateSerializer_fields == {"title", "description", "category", "visibility"}

\* serializer.validated_data: the keys of the body that are serializer fields
validated_data(body) ==
    [k \in PetitionCreateSerializer_fields \cap DOMAIN body |-> body[k]]

\* REST viewset create: IsAuthenticatedOrReadOnly lets every authenticated
\* account post, the serializer validates, perform_create sets the creator;
\* columns that are not in validated_data take the model's defaults.
PetitionViewSet_post(u, body) ==
    LET data == validated_data(body) IN
    /\ FreeIds # {}
    /\ IF ~data.title \/ ~validate(data.description)
       THEN /\ resp' = Response(400, "error", "validation")
            /\ UNCHANGED petitions
       ELSE /\ petitions' = [petitions EXCEPT ![NewId] =
                 Petition(u, role[u], data.description, data.visibility,
                          IF "status" \in DOMAIN data THEN data.status ELSE "draft",
                          NullTime)]
            /\ resp' = Response(201, "created", "created")
    /\ UNCHANGED <<role, reqs>>
    /\ UNCHANGED records

\* the same request with the keys of the form only
PetitionViewSet_create(u, hasTitle, description, visibility) ==
    PetitionViewSet_post(u, [title |-> hasTitle, description |-> description,
                             visibility |-> visibility])

(* ---------------------------------------------------------------------- *)
(* Read paths                                                              *)
(* ---------------------------------------------------------------------- *)

\* request.user of a request without a session
Anonymous == "anonymous"

Viewers == Users \cup {Anonymous}

is_authenticated(viewer) == viewer \in DOMAIN role

\* PetitionViewSet.get_queryset: the rows of the API listing and detail
get_queryset(viewer) ==
    IF is_authenticated(viewer) /\ role[viewer] = "admin"
    THEN {p \in Rows : petitions[p].exists}
    ELSE IF is_authenticated(viewer)
    THEN {p \in Rows : /\ petitions[p].exists
                       /\ \/ petitions[p].creator = viewer
                          \/ /\ petitions[p].status = "published"
                             /\ petitions[p].visibility = "public"}
    ELSE {p \in Rows : /\ petitions[p].exists
                       /\ petitions[p].status = "published"
                       /\ petitions[p].visibility = "public"}

\* justice_index: the rows of the public index page, the same for every
\* viewer; a search query only narrows them
justice_index(viewer) ==
    {p \in Rows : petitions[p].exists /\ petitions[p].status = "published"}

\* petition_detail: the rows whose public detail page renders
petition_detail(viewer) ==
    {p \in Rows : FoundPublished(p)}

(* ---------------------------------------------------------------------- *)
(* Viewset update and destroy                                              *)
(* ---------------------------------------------------------------------- *)
\* PUT on the viewset: IsAuthenticatedOrReadOnly is the only permission,
\* get_object looks the row up in get_queryset, and the serializer is
\* PetitionCreateSerializer as for create
PetitionViewSet_update(u, p, body) ==
    LET data == validated_data(body) IN
    /\ IF ~is_authenticated(u)
       THEN /\ resp' = Response(403, "detail", "Authentication credentials were not provided.")
            /\ UNCHANGED petitions
       ELSE IF p \notin get_queryset(u)
       THEN /\ resp' = Response(404, "error", "Not found.")
            /\ UNCHANGED petitions
       ELSE IF ~data.title \/ ~validate(data.description)
       THEN /\ resp' = Response(400, "error", "validation")
            /\ UNCHANGED petitions
       ELSE /\ petitions' = [petitions EXCEPT
                 ![p].description = data.description,
                 ![p].visibility = data.visibility,
                 ![p].status = IF "status" \in DOMAIN data THEN data.status ELSE @]
            /\ resp' = Response(200, "updated", "updated")
    /\ UNCHANGED <<role, reqs>>
    /\ UNCHANGED records

\* DELETE on the viewset
PetitionViewSet_destroy(u, p) ==
    /\ IF ~is_authenticated(u)
       THEN /\ resp' = Response(403, "detail", "Authentication credentials were not provided.")
            /\ UNCHANGED petitions
       ELSE IF p \notin get_queryset(u)
       THEN /\ resp' = Response(404, "error", "Not found.")
            /\ UNCHANGED petitions
       ELSE /\ petitions' = [petitions EXCEPT ![p] = NoPetition]
            /\ resp' = Response(204, "deleted", "deleted")
    /\ UNCHANGED <<role, reqs>>
    /\ UNCHANGED records

(* ---------------------------------------------------------------------- *)
(* submit_for_review                                                       *)
(* ---------------------------------------------------------------------- *)
\* submit_for_review without the ownership check
submit_for_review_AnyCitizen(u, p) ==
    /\ IF ~Found(p)
       THEN /\ resp' = Response(404, "error", "Not found.")
            /\ UNCHANGED petitions
       ELSE IF role[u] # "citizen"
       THEN /\ resp' = Response(403, "error", "Only citizens can submit petitions.")
            /\ UNCHANGED petitions
       ELSE IF petitions[p].status # "draft"
       THEN /\ resp' = Response(200, "message", "Petition is already " \o petitions[p].status \o ".")
            /\ UNCHANGED petitions
       ELSE /\ petitions' = [petitions EXCEPT ![p].status = "pending"]
            /\ resp' = Response(200, "message", "submitted for review.")
    /\ UNCHANGED <<role, reqs>>
    /\ UNCHANGED records

\* submit_for_review without the status check
submit_for_review_AnyStatus(u, p) ==
    /\ IF ~Found(p)
       THEN /\ resp' = Response(404, "error", "Not found.")
            /\ UNCHANGED petitions
       ELSE IF petitions[p].creator # u
       THEN /\ resp' = Response(403, "error", "You can only submit your own petitions.")
            /\ UNCHANGED petitions
       ELSE IF role[u] # "citizen"
       THEN /\ resp' = Response(403, "error", "Only citizens can submit petitions.")
            /\ UNCHANGED petitions
       ELSE /\ petitions' = [petitions EXCEPT ![p].status = "pending"]
            /\ resp' = Response(200, "message", "submitted for review.")
    /\ UNCHANGED <<role, reqs>>
    /\ UNCHANGED records

\* submit_for_review that writes an audit entry when it changes the status
submit_for_review_Audited(u, p) ==
    /\ IF ~Found(p)
       THEN /\ resp' = Response(404, "error", "Not found.")
            /\ UNCHANGED <<petitions, audit>>
       ELSE IF petitions[p].creator # u
       THEN /\ resp' = Response(403, "error", "You can only submit your own petitions.")
            /\ UNCHANGED <<petitions, audit>>
       ELSE IF role[u] # "citizen"
       THEN /\ resp' = Response(403, "error", "Only citizens can submit petitions.")
            /\ UNCHANGED <<petitions, audit>>
       ELSE IF petitions[p].status # "draft"
       THEN /\ resp' = Response(200, "message", "Petition is already " \o petitions[p].status \o ".")
            /\ UNCHANGED <<petitions, audit>>
       ELSE /\ petitions' = [petitions EXCEPT ![p].status = "pending"]
            /\ audit' = Append(audit, AuditLog(u, "submitted petition", NullTime, "null"))
            /\ resp' = Response(200, "message", "submitted for review.")
    /\ UNCHANGED <<role, reqs, evidences, bookings, links>>

\* submit_for_review that only refuses a petition already pending
submit_for_review_Resubmit(u, p) ==
    /\ IF ~Found(p)
       THEN /\ resp' = Response(404, "error", "Not found.")
            /\ UNCHANGED petitions
       ELSE IF petitions[p].creator # u
       THEN /\ resp' = Response(403, "error", "You can only submit your own petitions.")
            /\ UNCHANGED petitions
       ELSE IF role[u] # "citizen"
       THEN /\ resp' = Response(403, "error", "Only citizens can submit petitions.")
            /\ UNCHANGED petitions
       ELSE IF petitions[p].status = "pending"
       THEN /\ resp' = Response(200, "message", "Petition is already " \o petitions[p].status \o ".")
            /\ UNCHANGED petitions
       ELSE /\ petitions' = [petitions EXCEPT ![p].status = "pending"]
            /\ resp' = Response(200, "message", "submitted for review.")
    /\ UNCHANGED <<role, reqs>>
    /\ UNCHANGED records

submit_for_review(u, p) ==
    /\ IF ~Found(p)
       THEN /\ resp' = Response(404, "error", "Not found.")
            /\ UNCHANGED petitions
       ELSE IF petitions[p].creator # u
       THEN /\ resp' = Response(403, "error", "You can only submit your own petitions.")
            /\ UNCHANGED petitions
       ELSE IF role[u] # "citizen"
       THEN /\ resp' = Response(403, "error", "Only citizens can submit petitions.")
            /\ UNCHANGED petitions
       ELSE IF petitions[p].status # "draft"
       THEN /\ resp' = Response(200, "message", "Petition is already " \o petitions[p].status \o ".")
            /\ UNCHANGED petitions
       ELSE /\ petitions' = [petitions EXCEPT ![p].status = "pending"]
            /\ resp' = Response(200, "message", "submitted for review.")
    /\ UNCHANGED <<role, reqs>>
    /\ UNCHANGED records

(* ---------------------------------------------------------------------- *)
(* approve_petition                                                        *)
(* ---------------------------------------------------------------------- *)
\* views.py uses timezone.now() but never imports timezone: evaluating the
\* name raises NameError before petition.save() is reached.
timezone_imported == FALSE

\* approve_petition without the role check
approve_petition_AnyRole(u, p, t) ==
    /\ IF ~Found(p)
       THEN /\ resp' = Response(404, "error", "Not found.")
            /\ UNCHANGED petitions
       ELSE IF petitions[p].status # "pending"
       THEN /\ resp' = Response(200, "message", "Petition is not pending review.")
            /\ UNCHANGED petitions
       ELSE IF ~timezone_imported
       THEN /\ resp' = Response(500, "error", "NameError: name 'timezone' is not defined")
            /\ UNCHANGED petitions
       ELSE /\ petitions' = [petitions EXCEPT ![p].status = "published",
                                              ![p].published_at = t]
            /\ resp' = Response(200, "message", "has been approved and published!")
    /\ UNCHANGED <<role, reqs>>
    /\ UNCHANGED records

\* approve_petition without the status check
approve_petition_AnyStatus(u, p, t) ==
    /\ IF ~Found(p)
       THEN /\ resp' = Response(404, "error", "Not found.")
            /\ UNCHANGED petitions
       ELSE IF role[u] # "admin"
       THEN /\ resp' = Response(403, "error", "Only admins can approve petitions.")
            /\ UNCHANGED petitions
       ELSE IF ~timezone_imported
       THEN /\ resp' = Response(500, "error", "NameError: name 'timezone' is not defined")
            /\ UNCHANGED petitions
       ELSE /\ petitions' = [petitions EXCEPT ![p].status = "published",
                                              ![p].published_at = t]
            /\ resp' = Response(200, "message", "has been approved and published!")
    /\ UNCHANGED <<role, reqs>>
    /\ UNCHANGED records

\* t is the reading of the clock
\* approve_petition with the status check ahead of the role check
approve_petition_StatusFirst(u, p, t) ==
    /\ IF ~Found(p)
       THEN /\ resp' = Response(404, "error", "Not found.")
            /\ UNCHANGED petitions
       ELSE IF petitions[p].status # "pending"
       THEN /\ resp' = Response(200, "message", "Petition is not pending review.")
            /\ UNCHANGED petitions
       ELSE IF role[u] # "admin"
       THEN /\ resp' = Response(403, "error", "Only admins can approve petitions.")
            /\ UNCHANGED petitions
       ELSE IF ~timezone_imported
       THEN /\ resp' = Response(500, "error", "NameError: name 'timezone' is not defined")
            /\ UNCHANGED petitions
       ELSE /\ petitions' = [petitions EXCEPT ![p].status = "published",
                                              ![p].published_at = t]
            /\ resp' = Response(200, "message", "has been approved and published!")
    /\ UNCHANGED <<role, reqs>>
    /\ UNCHANGED records

approve_petition(u, p, t) ==
    /\ IF ~Found(p)
       THEN /\ resp' = Response(404, "error", "Not found.")
            /\ UNCHANGED petitions
       ELSE IF role[u] # "admin"
       THEN /\ resp' = Response(403, "error", "Only admins can approve petitions.")
            /\ UNCHANGED petitions
       ELSE IF petitions[p].status # "pending"
       THEN /\ resp' = Response(200, "message", "Petition is not pending review.")
            /\ UNCHANGED petitions
       ELSE IF ~timezone_imported
       THEN /\ resp' = Response(500, "error", "NameError: name 'timezone' is not defined")
            /\ UNCHANGED petitions
       ELSE /\ petitions' = [petitions EXCEPT ![p].status = "published",
                                              ![p].published_at = t]
            /\ resp' = Response(200, "message", "has been approved and published!")
    /\ UNCHANGED <<role, reqs>>
    /\ UNCHANGED records

(* ---------------------------------------------------------------------- *)
(* join_petition, one step per query                                       *)
(* ---------------------------------------------------------------------- *)
InFlight == BagToSet(reqs)
Move(q, q2) == (reqs (-) SetToBag({q})) (+) SetToBag({q2})
Finish(q) == reqs (-) SetToBag({q})

\* join_petition without the role check
join_petition_AnyRole(u, p, workers) ==
    /\ BagCardinality(reqs) < workers
    /\ IF ~FoundPublished(p)
       THEN /\ resp' = Response(404, "error", "Not found.")
            /\ UNCHANGED reqs
       ELSE /\ reqs' = reqs (+) SetToBag({Request("exists", u, p,
                                            petitions[p].supporter_count)})
            /\ UNCHANGED resp
    /\ UNCHANGED <<role, petitions>>
    /\ UNCHANGED records

\* get_object_or_404(..., status="published") and the role check; workers is
\* the number of requests the server handles at the same time
join_petition(u, p, workers) ==
    /\ BagCardinality(reqs) < workers
    /\ IF ~FoundPublished(p)
       THEN /\ resp' = Response(404, "error", "Not found.")
            /\ UNCHANGED reqs
       ELSE IF role[u] # "citizen"
       THEN /\ resp' = Response(403, "error", "Only citizens can support petitions.")
            /\ UNCHANGED reqs
       ELSE /\ reqs' = reqs (+) SetToBag({Request("exists", u, p,
                                            petitions[p].supporter_count)})
            /\ UNCHANGED resp
    /\ UNCHANGED <<role, petitions>>
    /\ UNCHANGED records

\* join_petition without the membership check
join_exists_Skipped(q) ==
    /\ q.pc = "exists"
    /\ reqs' = Move(q, [q EXCEPT !.pc = "add"])
    /\ UNCHANGED <<role, petitions, resp>>
    /\ UNCHANGED records

\* petition.supporters.filter(id=user.id).exists()
join_exists(q) ==
    /\ q.pc = "exists"
    /\ IF q.user \in petitions[q.pet].supporters
       THEN /\ resp' = Response(200, "message", "You already support this petition.")
            /\ reqs' = Finish(q)
       ELSE /\ reqs' = Move(q, [q EXCEPT !.pc = "add"])
            /\ UNCHANGED resp
    /\ UNCHANGED <<role, petitions>>
    /\ UNCHANGED records

\* petition.supporters.add(user): the join table holds a pair once
join_add(q) ==
    /\ q.pc = "add"
    /\ petitions' = [petitions EXCEPT ![q.pet].supporters = @ \cup {q.user}]
    /\ reqs' = Move(q, [q EXCEPT !.pc = "count"])
    /\ UNCHANGED <<role, resp>>
    /\ UNCHANGED records

\* petition.supporter_count = petition.supporters.count()
join_count(q) ==
    /\ q.pc = "count"
    /\ reqs' = Move(q, [q EXCEPT !.pc = "save",
                                 !.supporter_count =
                                     Cardinality(petitions[q.pet].supporters)])
    /\ UNCHANGED <<role, petitions, resp>>
    /\ UNCHANGED records

\* petition.save(update_fields=["supporter_count"]) and the response
join_save(q) ==
    /\ q.pc = "save"
    /\ petitions' = [petitions EXCEPT ![q.pet].supporter_count = q.supporter_count]
    /\ resp' = Response(200, "message", "Thank you for your support!")
    /\ reqs' = Finish(q)
    /\ UNCHANGED role
    /\ UNCHANGED records

(* ---------------------------------------------------------------------- *)
(* Registration                                                            *)
(* ---------------------------------------------------------------------- *)
\* usernames a visitor may register, besides the taken ones
Usernames == <<"visitor1", "visitor2", "visitor3">>
NewUsers == {Usernames[i] : i \in 1..MaxAccounts}

\* values of the role key of a request: the choices and one other string
RoleInputs == Roles \cup {"moderator"}
PasswordLengths == {MinPasswordLength - 1, MinPasswordLength}

\* registration requests; the role key is optional
RegisterBodies ==
    [username : NewUsers \cup {"citizen1"}, password : PasswordLengths]
    \cup [username : NewUsers \cup {"citizen1"}, password : PasswordLengths,
          role : RoleInputs]

\* request.POST.get("role", "citizen") and validated_data.get("role", "citizen")
role_or_default(post) == IF "role" \in DOMAIN post THEN post.role ELSE "citizen"

\* HTML registration: the username must be free; create_user stores the
\* posted role as it is
register_page(post) ==
    /\ IF post.username \in DOMAIN role
       THEN /\ resp' = Response(200, "error", "Username already exists")
            /\ UNCHANGED role
       ELSE /\ role' = (post.username :> role_or_default(post)) @@ role
            /\ resp' = Response(302, "redirect", "dashboard2")
    /\ UNCHANGED <<petitions, reqs>>
    /\ UNCHANGED records

\* RegisterSerializer.is_valid: username unique, password of 8 characters or
\* more, role (when given) one of the choices
RegisterSerializer_is_valid(post) ==
    /\ post.username \notin DOMAIN role
    /\ post.password >= MinPasswordLength
    /\ "role" \in DOMAIN post => post.role \in Roles

\* registration API
RegisterAPI_create(post) ==
    /\ IF ~RegisterSerializer_is_valid(post)
       THEN /\ resp' = Response(400, "error", "validation")
            /\ UNCHANGED role
       ELSE /\ role' = (post.username :> role_or_default(post)) @@ role
            /\ resp' = Response(201, "created", "created")
    /\ UNCHANGED <<petitions, reqs>>
    /\ UNCHANGED records

(* ---------------------------------------------------------------------- *)
(* Evidence upload                                                         *)
(* ---------------------------------------------------------------------- *)
\* upload requests: whether a file and title are sent, and the uploader and
\* verification_status keys a client may add
EvidenceBodies ==
    [file : BOOLEAN, uploader : {"admin", "citizen2"},
     verification_status : VerificationStatuses]

\* the serializer with verification_status writable
EvidenceSerializer_read_only_fields_WithoutStatus ==
    {"uploader", "uploaded_at", "size_bytes"}

\* EvidenceSerializer.Meta.read_only_fields
EvidenceSerializer_read_only_fields ==
    {"uploader", "uploaded_at", "size_bytes", "verification_status"}

\* serializer.validated_data: the keys of the body that are writable
EvidenceSerializer_validated_data(body) ==
    [k \in DOMAIN body \ EvidenceSerializer_read_only_fields |-> body[k]]

\* upload API: IsAuthenticated, the serializer validates, perform_create
\* saves with uploader=request.user; verification_status takes the model's
\* default unless validated_data holds it
EvidenceUploadAPI_create(u, body) ==
    LET data == EvidenceSerializer_validated_data(body) IN
    /\ FreeEvidenceIds # {}
    /\ IF ~is_authenticated(u)
       THEN /\ resp' = Response(403, "detail", "Authentication credentials were not provided.")
            /\ UNCHANGED evidences
       ELSE IF ~data.file
       THEN /\ resp' = Response(400, "error", "validation")
            /\ UNCHANGED evidences
       ELSE /\ evidences' = [evidences EXCEPT ![NewEvidenceId] =
                 Evidence(u, IF "verification_status" \in DOMAIN data
                             THEN data.verification_status ELSE "pending")]
            /\ resp' = Response(201, "created", "created")
    /\ UNCHANGED <<role, petitions, reqs, bookings, links, audit>>

(* ---------------------------------------------------------------------- *)
(* Consultation bookings                                                   *)
(* ---------------------------------------------------------------------- *)
\* the booking rows of a (slot, user) pair
BookingsOf(slot, user) ==
    {b \in BagToSet(bookings) : b.slot = slot /\ b.user = user}

\* a booking table without unique_together
unique_slot_user_Dropped(slot, user) == TRUE

\* ConsultationBooking.Meta.unique_together = ["slot", "user"]: the
\* serializer's validator refuses the pair, and so does the unique index
unique_slot_user(slot, user) == BookingsOf(slot, user) = {}

\* booking through ConsultationBookingSerializer: slot and user are the
\* writable fields, confirmed is read-only and takes its default; the
\* slot's is_booked flag is neither read nor written
ConsultationBooking_create(slot, user) ==
    /\ unique_slot_user(slot, user) => BagCardinality(bookings) < MaxBookings
    /\ IF ~unique_slot_user(slot, user)
       THEN /\ resp' = Response(400, "error", "The fields slot, user must make a unique set.")
            /\ UNCHANGED bookings
       ELSE /\ bookings' = bookings (+) SetToBag({ConsultationBooking(slot, user, FALSE)})
            /\ resp' = Response(201, "created", "created")
    /\ UNCHANGED <<role, petitions, reqs, evidences, links, audit>>

(* ---------------------------------------------------------------------- *)
(* Audit log                                                               *)
(* ---------------------------------------------------------------------- *)
\* record(actor_or_none, action_description, context): a new entry at the
\* end of the log; timestamp is auto_now_add.  No view calls it.
record(actor, action, meta, t) ==
    /\ Len(audit) < MaxAudit
    /\ actor \in DOMAIN role \cup {NoUser}
    /\ audit' = Append(audit, AuditLog(actor, action, t, meta))
    /\ UNCHANGED <<role, petitions, reqs, resp, evidences, bookings, links>>

\* an audit log whose entries go with their account
AuditLog_user_on_delete_CASCADE(entries, u) ==
    SelectSeq(entries, LAMBDA e : e.user # u)

\* AuditLog.user: on_delete=models.SET_NULL
AuditLog_user_on_delete(entries, u) ==
    [i \in DOMAIN entries |->
        IF entries[i].user = u THEN [entries[i] EXCEPT !.user = NoUser]
        ELSE entries[i]]

\* AuditLogAdmin.has_change_permission / has_delete_permission
AuditLogAdmin_has_change_permission == FALSE
AuditLogAdmin_has_delete_permission == FALSE

\* AuditLogAdmin change view
AuditLogAdmin_change(i, action) ==
    /\ i \in DOMAIN audit
    /\ IF ~AuditLogAdmin_has_change_permission
       THEN /\ resp' = Response(403, "error", "Permission denied")
            /\ UNCHANGED audit
       ELSE /\ audit' = [audit EXCEPT ![i].action = action]
            /\ resp' = Response(302, "success", "The audit log was changed successfully.")
    /\ UNCHANGED <<role, petitions, reqs, evidences, bookings, links>>

\* AuditLogAdmin delete view
AuditLogAdmin_delete(i) ==
    /\ i \in DOMAIN audit
    /\ IF ~AuditLogAdmin_has_delete_permission
       THEN /\ resp' = Response(403, "error", "Permission denied")
            /\ UNCHANGED audit
       ELSE /\ audit' = SubSeq(audit, 1, i - 1) \o SubSeq(audit, i + 1, Len(audit))
            /\ resp' = Response(302, "success", "The audit log was deleted successfully.")
    /\ UNCHANGED <<role, petitions, reqs, evidences, bookings, links>>

(* ---------------------------------------------------------------------- *)
(* Admin site                                                              *)
(* ---------------------------------------------------------------------- *)
\* PetitionAdmin change form: status is an editable field, supporter_count
\* and published_at are read-only.
PetitionAdmin_change_status(p, s) ==
    /\ Found(p)
    /\ petitions[p].status # s
    /\ petitions' = [petitions EXCEPT ![p].status = s]
    /\ UNCHANGED <<role, reqs, resp>>
    /\ UNCHANGED records

\* UserAdmin change form and list_editable: role is a choice field
UserAdmin_change_role(u, r) ==
    /\ u \in DOMAIN role
    /\ r \in Roles
    /\ role[u] # r
    /\ role' = [role EXCEPT ![u] = r]
    /\ UNCHANGED <<petitions, reqs, resp>>
    /\ UNCHANGED records

\* ConsultationBookingAdmin change form: confirmed is an editable field
ConsultationBookingAdmin_change_confirmed(b, c) ==
    /\ BagIn(b, bookings)
    /\ b.confirmed # c
    /\ bookings' = (bookings (-) SetToBag({b}))
                      (+) SetToBag({ConsultationBooking(b.slot, b.user, c)})
    /\ UNCHANGED <<role, petitions, reqs, resp, evidences, links, audit>>

\* the link rows of a (deposition, evidence) pair
LinksOf(deposition, evidence) ==
    {l \in BagToSet(links) : l.deposition = deposition /\ l.evidence = evidence}

\* a link table without unique_together
unique_deposition_evidence_Dropped(deposition, evidence) == TRUE

\* DepositionEvidence.Meta.unique_together = ["deposition", "evidence"],
\* checked by the add form's validate_unique and by the unique index
unique_deposition_evidence(deposition, evidence) ==
    LinksOf(deposition, evidence) = {}

\* DepositionEvidenceAdmin add form: deposition, evidence and order are the
\* fields; the evidence is chosen among the existing rows
DepositionEvidenceAdmin_add(deposition, evidence, order) ==
    /\ evidences[evidence].exists
    /\ unique_deposition_evidence(deposition, evidence)
          => BagCardinality(links) < MaxLinks
    /\ IF ~unique_deposition_evidence(deposition, evidence)
       THEN /\ resp' = Response(200, "error",
                 "Deposition evidence with this Deposition and Evidence already exists.")
            /\ UNCHANGED links
       ELSE /\ links' = links (+) SetToBag({DepositionEvidence(deposition, evidence, order)})
            /\ resp' = Response(302, "success", "The deposition evidence was added successfully.")
    /\ UNCHANGED <<role, petitions, reqs, evidences, bookings, audit>>

\* DepositionEvidenceAdmin change form, order edited
DepositionEvidenceAdmin_change_order(l, order) ==
    /\ BagIn(l, links)
    /\ l.order # order
    /\ links' = (links (-) SetToBag({l}))
                   (+) SetToBag({DepositionEvidence(l.deposition, l.evidence, order)})
    /\ UNCHANGED <<role, petitions, reqs, resp, evidences, bookings, audit>>

\* UserAdmin delete view: the account's petitions, evidence, bookings,
\* slots and depositions go with it (on_delete=CASCADE), its support rows
\* are removed, and its audit entries stay (on_delete=SET_NULL)
UserAdmin_delete(u) ==
    /\ u \in DOMAIN role
    /\ role' = [v \in DOMAIN role \ {u} |-> role[v]]
    /\ petitions' = [p \in Rows |->
          IF petitions[p].exists /\ petitions[p].creator = u THEN NoPetition
          ELSE [petitions[p] EXCEPT
                  !.supporters = @ \ {u},
                  !.evidences = {e \in @ : evidences[e].uploader # u}]]
    /\ evidences' = [e \in EvidenceIds |->
          IF evidences[e].exists /\ evidences[e].uploader = u THEN NoEvidence
          ELSE evidences[e]]
    /\ bookings' = [b \in {c \in BagToSet(bookings) :
                              c.user # u /\ SlotLawyer(c.slot) # u}
                      |-> bookings[b]]
    /\ links' = [l \in {m \in BagToSet(links) :
                           /\ evidences[m.evidence].uploader # u
                           /\ DepositionAuthor(m.deposition) # u}
                   |-> links[l]]
    /\ audit' = AuditLog_user_on_delete(audit, u)
    /\ UNCHANGED <<reqs, resp>>

\* EvidenceAdmin change form: uploader and verification_status are editable
\* fields (readonly_fields holds uploaded_at and size_bytes only)
EvidenceAdmin_change(e, uploader, verificationStatus) ==
    /\ evidences[e].exists
    /\ evidences[e] # Evidence(uploader, verificationStatus)
    /\ evidences' = [evidences EXCEPT ![e] = Evidence(uploader, verificationStatus)]
    /\ UNCHANGED <<role, petitions, reqs, resp, bookings, links, audit>>

(* ---------------------------------------------------------------------- *)
(* Specification                                                           *)
(* ---------------------------------------------------------------------- *)
\* concurrent support calls against the seeded database
NextSupport ==
    \/ \E u \in Users, p \in SeededIds : join_petition(u, p, MaxReqs)
    \/ \E q \in InFlight : join_exists(q)
    \/ \E q \in InFlight : join_add(q)
    \/ \E q \in InFlight : join_count(q)
    \/ \E q \in InFlight : join_save(q)

SpecSupport == InitSeeded /\ [][NextSupport]_vars

\* support calls handled one at a time while statuses change in the admin site
NextSupportModerated ==
    \/ \E u \in Users, p \in SeededIds : join_petition(u, p, 1)
    \/ \E q \in InFlight : join_exists(q)
    \/ \E q \in InFlight : join_add(q)
    \/ \E q \in InFlight : join_count(q)
    \/ \E q \in InFlight : join_save(q)
    \/ \E p \in SeededIds, s \in Statuses : PetitionAdmin_change_status(p, s)

SpecSupportModerated == InitSeeded /\ [][NextSupportModerated]_vars

Next ==
    \/ \E u \in Users, hasTitle \in BOOLEAN, d \in LifecycleDescriptions, v \in Visibilities :
          petition_create(u, hasTitle, d, v)
    \/ \E u \in Users, hasTitle \in BOOLEAN, d \in LifecycleDescriptions, v \in Visibilities :
          PetitionViewSet_create(u, hasTitle, d, v)
    \/ \E u \in Users, p \in Rows : submit_for_review(u, p)
    \/ \E u \in Users, p \in Rows, t \in Times : approve_petition(u, p, t)
    \/ \E p \in Rows, s \in Statuses : PetitionAdmin_change_status(p, s)

Spec == Init /\ [][Next]_vars

\* the core operations on the seeded database while statuses change in the
\* admin site
NextCore ==
    \/ \E u \in Users, p \in SeededIds : submit_for_review(u, p)
    \/ \E u \in Users, p \in SeededIds, t \in Times : approve_petition(u, p, t)
    \/ \E u \in Users, p \in SeededIds : join_petition(u, p, 1)
    \/ \E q \in InFlight : join_exists(q)
    \/ \E q \in InFlight : join_add(q)
    \/ \E q \in InFlight : join_count(q)
    \/ \E q \in InFlight : join_save(q)
    \/ \E p \in SeededIds, s \in Statuses : PetitionAdmin_change_status(p, s)

SpecCore == InitSeeded /\ [][NextCore]_vars

\* consultation bookings of the seeded slots
NextBookings ==
    \/ \E slot \in SlotIds, user \in Users : ConsultationBooking_create(slot, user)
    \/ \E b \in BagToSet(bookings), c \in BOOLEAN :
          ConsultationBookingAdmin_change_confirmed(b, c)

SpecBookings == InitSeeded /\ [][NextBookings]_vars

\* evidence attached to the seeded depositions
NextDepositions ==
    \/ \E d \in DepositionIds, e \in EvidenceIds, o \in Orders :
          DepositionEvidenceAdmin_add(d, e, o)
    \/ \E l \in BagToSet(links), o \in Orders :
          DepositionEvidenceAdmin_change_order(l, o)

SpecDepositions == InitSeeded /\ [][NextDepositions]_vars

\* audit entries, the admin site's views of them, and account deletion
NextAudit ==
    \/ \E actor \in {"citizen1", "lawyer1", NoUser}, action \in AuditActions,
          meta \in AuditMetas, t \in Times :
          record(actor, action, meta, t)
    \/ \E i \in 1..MaxAudit, action \in AuditActions : AuditLogAdmin_change(i, action)
    \/ \E i \in 1..MaxAudit : AuditLogAdmin_delete(i)
    \/ \E u \in Users : UserAdmin_delete(u)

SpecAudit == InitSeeded /\ [][NextAudit]_vars

\* evidence uploads and moderation in the admin site
NextEvidence ==
    \/ \E u \in Viewers, body \in EvidenceBodies : EvidenceUploadAPI_create(u, body)
    \/ \E e \in EvidenceIds, u \in {"citizen1", "citizen2"}, vs \in VerificationStatuses :
          EvidenceAdmin_change(e, u, vs)

SpecEvidence == InitSeeded /\ [][NextEvidence]_vars

\* petitions created with evidence ids on the seeded database, next to
\* evidence uploads and submissions
NextAttach ==
    \/ \E u \in FormUsers, d \in LifecycleDescriptions, ids \in EvidenceIdSets :
          petition_create_attach(u, TRUE, d, "public", ids)
    \/ \E u \in {"citizen1", "citizen2"}, body \in EvidenceBodies :
          EvidenceUploadAPI_create(u, body)
    \/ \E u \in {"citizen1", "citizen2"}, p \in PetIds : submit_for_review(u, p)

SpecAttach == InitSeeded /\ [][NextAttach]_vars

\* the petition operations and evidence uploads on the seeded database,
\* next to audit entries written beside them
NextFrame ==
    \/ \E u \in {"admin", "citizen1"}, d \in LifecycleDescriptions :
          petition_create(u, TRUE, d, "public")
    \/ \E u \in {"admin", "citizen1"}, d \in LifecycleDescriptions :
          PetitionViewSet_create(u, TRUE, d, "public")
    \/ \E u \in Users, p \in Rows : submit_for_review(u, p)
    \/ \E u \in Users, p \in Rows, t \in Times : approve_petition(u, p, t)
    \/ \E u \in Users, p \in Rows : join_petition(u, p, 1)
    \/ \E q \in InFlight : join_exists(q)
    \/ \E q \in InFlight : join_add(q)
    \/ \E q \in InFlight : join_count(q)
    \/ \E q \in InFlight : join_save(q)
    \/ \E u \in {"citizen1", Anonymous}, body \in EvidenceBodies :
          EvidenceUploadAPI_create(u, body)
    \/ record("citizen1", "created petition", "null", SeedTime + 1)

SpecFrame == InitSeeded /\ [][NextFrame]_vars

\* the core operations on the seeded database while the admin site changes
\* the role of a supporter-to-be
NextPrecedence ==
    \/ \E u \in Users, p \in SeededIds : submit_for_review(u, p)
    \/ \E u \in Users, p \in SeededIds, t \in Times : approve_petition(u, p, t)
    \/ \E u \in Users, p \in SeededIds : join_petition(u, p, 1)
    \/ \E q \in InFlight : join_exists(q)
    \/ \E q \in InFlight : join_add(q)
    \/ \E q \in InFlight : join_count(q)
    \/ \E q \in InFlight : join_save(q)
    \/ \E r \in Roles : UserAdmin_change_role("citizen2", r)

SpecPrecedence == InitSeeded /\ [][NextPrecedence]_vars

\* request bodies of an update: a title, a long enough or a short
\* description, a visibility and a status
UpdateBodies ==
    [title : {TRUE}, description : {Description(49, 49), Description(50, 50)},
     visibility : Visibilities, status : {"published", "rejected"}]

\* the viewset's update, destroy and create on the seeded database
NextViewSet ==
    \/ \E u \in Viewers, p \in Rows, body \in UpdateBodies :
          PetitionViewSet_update(u, p, body)
    \/ \E u \in Viewers, p \in Rows : PetitionViewSet_destroy(u, p)
    \/ \E u \in {"citizen1", "lawyer1"}, v \in Visibilities :
          PetitionViewSet_create(u, TRUE, Description(50, 50), v)

SpecViewSet == InitSeeded /\ [][NextViewSet]_vars

\* create, submit_for_review, approve and support on the seeded database,
\* support calls one at a time
NextOps ==
    \/ \E u \in {"admin", "citizen1"}, d \in LifecycleDescriptions :
          petition_create(u, TRUE, d, "public")
    \/ \E d \in LifecycleDescriptions :
          PetitionViewSet_create("citizen1", TRUE, d, "public")
    \/ \E u \in Users, p \in Rows : submit_for_review(u, p)
    \/ \E u \in Users, p \in Rows, t \in Times : approve_petition(u, p, t)
    \/ \E u \in Users, p \in Rows : join_petition(u, p, 1)
    \/ \E q \in InFlight : join_exists(q)
    \/ \E q \in InFlight : join_add(q)
    \/ \E q \in InFlight : join_count(q)
    \/ \E q \in InFlight : join_save(q)

SpecOps == InitSeeded /\ [][NextOps]_vars

\* request bodies of the API calls: a long enough description, a visibility
\* and a status
ApiBodies ==
    [title : {TRUE}, description : {Description(50, 50)},
     visibility : Visibilities, status : {"rejected"}]

\* the same operations and viewset updates
NextApi ==
    \/ petition_create("citizen1", TRUE, Description(50, 50), "public")
    \/ \E body \in ApiBodies : PetitionViewSet_post("citizen1", body)
    \/ \E u \in {"admin", "citizen1"}, p \in Rows : submit_for_review(u, p)
    \/ \E u \in {"admin", "citizen1"}, p \in Rows, t \in Times : approve_petition(u, p, t)
    \/ \E u \in {"admin", "citizen1"}, p \in Rows : join_petition(u, p, 1)
    \/ \E q \in InFlight : join_exists(q)
    \/ \E q \in InFlight : join_add(q)
    \/ \E q \in InFlight : join_count(q)
    \/ \E q \in InFlight : join_save(q)
    \/ \E u \in {"admin", "citizen1"}, p \in Rows, body \in ApiBodies :
          PetitionViewSet_update(u, p, body)

SpecApi == InitSeeded /\ [][NextApi]_vars

\* accounts: both registration paths and the admin's role edits
NextAccounts ==
    \/ \E post \in RegisterBodies : register_page(post)
    \/ \E post \in RegisterBodies : RegisterAPI_create(post)
    \/ \E u \in Users \cup NewUsers, r \in Roles : UserAdmin_change_role(u, r)

SpecAccounts == Init /\ [][NextAccounts]_vars

\* drafts: creation with every description and every request body, and
\* submission
NextDrafts ==
    \/ \E u \in Users, post \in Bodies : petition_create_post(u, post)
    \/ \E u \in Users, body \in Bodies : PetitionViewSet_post(u, body)
    \/ \E u \in Users, p \in Rows : submit_for_review(u, p)

SpecDrafts == Init /\ [][NextDrafts]_vars

(* ---------------------------------------------------------------------- *)
(* Properties                                                              *)
(* ---------------------------------------------------------------------- *)
NotFound == Response(404, "error", "Not found.")
AlreadySupported == Response(200, "message", "You already support this petition.")
OnlyCitizensSupport == Response(403, "error", "Only citizens can support petitions.")
OnlyOwnPetitions == Response(403, "error", "You can only submit your own petitions.")
OnlyAdminsApprove == Response(403, "error", "Only admins can approve petitions.")
NotPending == Response(200, "message", "Petition is not pending review.")
Submitted == Response(200, "message", "submitted for review.")

\* C1: once no support call is in flight, every petition's supporter_count
\* equals the number of accounts in its supporter set.
C1_CountEqualsSupporters ==
    reqs = EmptyBag =>
        \A p \in Rows :
            petitions[p].exists =>
                petitions[p].supporter_count = Cardinality(petitions[p].supporters)

\* C2: when an admin approves a pending petition that a citizen created and
\* has just submitted for review, the petition is published and its publish
\* timestamp is set.
C2_ApprovePublishes ==
    [][\A u \in Users, p \in Rows, t \in Times :
          (/\ resp = Submitted
           /\ petitions[p].exists
           /\ petitions[p].creator_role = "citizen"
           /\ petitions[p].status = "pending"
           /\ role[u] = "admin"
           /\ approve_petition(u, p, t))
          => /\ petitions'[p].status = "published"
             /\ petitions'[p].published_at # NullTime]_vars

\* C3: a support call on an existing petition that is not published is
\* rejected (404) for every actor, starts no request and leaves every
\* supporter set and supporter_count as they were.
C3_SupportUnpublishedRejected ==
    [][\A u \in Users, p \in Rows :
          (/\ petitions[p].exists
           /\ petitions[p].status # "published"
           /\ join_petition(u, p, 1))
          => /\ resp' = NotFound
             /\ reqs' = reqs
             /\ petitions' = petitions]_vars

C3_Witness ==
    /\ resp = NotFound
    /\ \E p \in SeededIds : petitions[p].status = "rejected"
    /\ \E p \in SeededIds : petitions[p].status = "draft"

\* C4: when the membership query of a support call finds the citizen already
\* in the supporter set, the call ends with the "already supported" message
\* (status 200) and no petition row or supporter set changes.
C4_SupportIdempotent ==
    [][\A q \in InFlight :
          (/\ q.user \in petitions[q.pet].supporters
           /\ join_exists(q))
          => /\ resp' = AlreadySupported
             /\ petitions' = petitions
             /\ reqs' = Finish(q)]_vars

C4_Witness ==
    /\ resp = AlreadySupported
    /\ \E p \in Rows :
          /\ petitions[p].supporters # {}
          /\ petitions[p].supporter_count = Cardinality(petitions[p].supporters)

\* C5: a support call on a published petition by an actor whose role is not
\* citizen gets a 403 error, starts no request and changes no supporter set
\* or supporter_count.
C5_SupportNonCitizenForbidden ==
    [][\A u \in Users, p \in Rows :
          (/\ petitions[p].exists
           /\ petitions[p].status = "published"
           /\ role[u] # "citizen"
           /\ join_petition(u, p, MaxReqs))
          => /\ resp' = OnlyCitizensSupport
             /\ reqs' = reqs
             /\ petitions' = petitions]_vars

C5_Witness == resp = OnlyCitizensSupport

\* C6: submit_for_review by an actor who is not the petition's creator gets
\* a 403 error and changes no petition, whatever the status and the role.
C6_SubmitByNonCreatorForbidden ==
    [][\A u \in Users, p \in Rows :
          (/\ petitions[p].exists
           /\ petitions[p].creator # u
           /\ submit_for_review(u, p))
          => /\ resp'.code = 403
             /\ resp'.key = "error"
             /\ petitions' = petitions]_vars

C6_Witness ==
    /\ resp = OnlyOwnPetitions
    /\ \E p \in Rows : petitions[p].exists /\ petitions[p].status = "draft"

\* C7: approve by an actor whose role is not admin gets a 403 error and
\* leaves status and publish timestamp unchanged, for every current status.
C7_ApproveByNonAdminForbidden ==
    [][\A u \in Users, p \in Rows, t \in Times :
          (/\ petitions[p].exists
           /\ role[u] # "admin"
           /\ approve_petition(u, p, t))
          => /\ resp' = OnlyAdminsApprove
             /\ petitions' = petitions]_vars

C7_Witness ==
    /\ resp = OnlyAdminsApprove
    /\ \E p \in Rows : petitions[p].exists /\ petitions[p].status = "pending"

\* C8: approve by an admin on a draft, published or rejected petition
\* returns a message with status 200, not an error, and changes nothing.
C8_ApproveNotPendingNoOp ==
    [][\A u \in Users, p \in Rows, t \in Times :
          (/\ petitions[p].exists
           /\ petitions[p].status \in {"draft", "published", "rejected"}
           /\ role[u] = "admin"
           /\ approve_petition(u, p, t))
          => /\ resp' = NotPending
             /\ petitions' = petitions]_vars

C8_Witness ==
    /\ resp = NotPending
    /\ \E p \in Rows : petitions[p].exists /\ petitions[p].status = "rejected"

\* C9: submit_for_review by the citizen creator on a pending, published or
\* rejected petition returns a 200 message and changes nothing; on a draft it
\* sets the status to pending and changes nothing else.
C9_SubmitByCreator ==
    [][\A u \in Users, p \in Rows :
          (/\ petitions[p].exists
           /\ petitions[p].creator = u
           /\ role[u] = "citizen"
           /\ submit_for_review(u, p))
          => IF petitions[p].status = "draft"
             THEN petitions' = [petitions EXCEPT ![p].status = "pending"]
             ELSE /\ resp'.code = 200
                  /\ resp'.key = "message"
                  /\ petitions' = petitions]_vars

C9_Witness ==
    /\ resp = Response(200, "message", "Petition is already published.")
    /\ \E p \in Rows : petitions[p].exists /\ petitions[p].status = "published"

\* C10: every stored petition was created by an account whose role was
\* citizen when the petition was created.
C10_CreatorWasCitizen ==
    \A p \in Rows :
        petitions[p].exists => petitions[p].creator_role = "citizen"

\* C11: no stored petition has a description shorter than 50 characters.
C11_NoShortDescription ==
    \A p \in Rows :
        petitions[p].exists => petitions[p].description.raw >= MinDescriptionLength

\* C12: a petition row that appears has status draft, supporter_count 0, no
\* supporters and no publish timestamp, whatever the request contained.
C12_CreatedAsDraft ==
    [][\A p \in Rows :
          (~petitions[p].exists /\ petitions'[p].exists)
          => /\ petitions'[p].status = "draft"
             /\ petitions'[p].supporter_count = 0
             /\ petitions'[p].supporters = {}
             /\ petitions'[p].published_at = NullTime]_vars

C12_Witness ==
    /\ resp = Response(201, "created", "created")
    /\ \E p \in Rows : petitions[p].exists /\ petitions[p].status = "draft"

\* C13: on the API listing, the index page and the detail page, a viewer who
\* is neither the creator nor an admin sees a petition only when it is
\* published and public.
C13_VisibilityRule ==
    \A viewer \in Viewers, p \in Rows :
        ( /\ p \in get_queryset(viewer) \cup justice_index(viewer)
                   \cup petition_detail(viewer)
          /\ petitions[p].creator # viewer
          /\ ~(is_authenticated(viewer) /\ role[viewer] = "admin") )
        => /\ petitions[p].status = "published"
           /\ petitions[p].visibility = "public"

\* C14: every account's role is one of admin, lawyer, citizen.
C14_RoleInChoices == \A u \in DOMAIN role : role[u] \in Roles

\* a step of one of the core operations submit_for_review, approve, support
CoreStep ==
    \/ \E u \in Users, p \in Rows : submit_for_review(u, p)
    \/ \E u \in Users, p \in Rows, t \in Times : approve_petition(u, p, t)
    \/ \E u \in Users, p \in Rows : join_petition(u, p, 1)
    \/ \E q \in InFlight : join_exists(q) \/ join_add(q) \/ join_count(q) \/ join_save(q)

\* C15: no step of submit_for_review, approve or support, by any actor,
\* changes the status of a petition that is published or rejected.
C15_TerminalStatuses ==
    [][\A p \in Rows :
          ( /\ petitions[p].exists
            /\ petitions[p].status \in {"published", "rejected"}
            /\ CoreStep )
          => petitions'[p].status = petitions[p].status]_vars

C15_Witness ==
    /\ resp = Response(200, "message", "Petition is already rejected.")
    /\ \E p \in Rows : petitions[p].exists /\ petitions[p].status = "rejected"

\* C16: a booking of a slot by a user who already has a booking of that slot
\* is rejected and leaves the bookings as they are; a booking of a pair not
\* yet booked succeeds whatever other bookings exist; no (slot, user) pair
\* ever has two booking rows.
C16_BookingUnique ==
    [][ /\ \A slot \in SlotIds, user \in Users :
              ConsultationBooking_create(slot, user)
              => IF BookingsOf(slot, user) # {}
                 THEN /\ bookings' = bookings
                      /\ resp'.code = 400
                 ELSE /\ bookings' = bookings (+) SetToBag({ConsultationBooking(slot, user, FALSE)})
                      /\ resp'.code = 201
        /\ \A b \in BagToSet(bookings') :
              /\ CopiesIn(b, bookings') = 1
              /\ BookingsOf(b.slot, b.user)' = {b} ]_vars

\* a second booking of a pair has been refused while two users hold
\* bookings of different slots
C16_Witness ==
    /\ resp = Response(400, "error", "The fields slot, user must make a unique set.")
    /\ \E a, b \in BagToSet(bookings) : a.slot # b.slot /\ a.user # b.user

\* C17: every slot has at most one confirmed booking.
C17_OneConfirmedPerSlot ==
    \A a, b \in BagToSet(bookings) :
        (a.slot = b.slot /\ a.confirmed /\ b.confirmed) => a = b

\* C18: attaching an evidence item to a deposition that already holds it is
\* rejected and leaves the links as they are, at every position; no
\* (deposition, evidence) pair ever has two link rows.
C18_AttachUnique ==
    [][ /\ \A d \in DepositionIds, e \in EvidenceIds, o \in Orders :
              (DepositionEvidenceAdmin_add(d, e, o) /\ LinksOf(d, e) # {})
              => /\ links' = links
                 /\ resp'.key = "error"
        /\ \A l \in BagToSet(links') :
              /\ CopiesIn(l, links') = 1
              /\ LinksOf(l.deposition, l.evidence)' = {l} ]_vars

C18_Witness ==
    /\ resp = Response(200, "error",
          "Deposition evidence with this Deposition and Evidence already exists.")
    /\ links # EmptyBag

\* C19 as stated: no step removes an audit entry or changes any field of one.
C19_AppendOnly ==
    [][ /\ Len(audit') >= Len(audit)
        /\ \A i \in DOMAIN audit : audit'[i] = audit[i] ]_vars

\* C19: no step removes an audit entry or changes its action, timestamp or
\* context;
\* an entry's user changes only when the acting account is deleted, and then
\* to no user.
C19_AppendOnlyButActor ==
    [][ /\ Len(audit') >= Len(audit)
        /\ \A i \in DOMAIN audit :
              /\ audit'[i].action = audit[i].action
              /\ audit'[i].timestamp = audit[i].timestamp
              /\ audit'[i].meta = audit[i].meta
              /\ \/ audit'[i].user = audit[i].user
                 \/ /\ audit'[i].user = NoUser
                    /\ UserAdmin_delete(audit[i].user) ]_vars

\* an entry whose acting account has been deleted
C19_Witness ==
    \E i \in DOMAIN audit :
        /\ audit[i].user = NoUser
        /\ "citizen1" \notin DOMAIN role
        /\ resp = Response(403, "error", "Permission denied")

\* C20: an upload stores a row whose uploader is the requesting account and
\* whose verification_status is pending, whatever the request holds, and
\* leaves the uploader and verification_status of every other row alone.
C20_UploadPending ==
    [][\A u \in Viewers, body \in EvidenceBodies :
          EvidenceUploadAPI_create(u, body)
          => \A e \in EvidenceIds :
                IF evidences[e].exists
                THEN evidences'[e] = evidences[e]
                ELSE evidences'[e].exists
                     => /\ evidences'[e].uploader = u
                        /\ evidences'[e].verification_status = "pending"]_vars

C20_Witness ==
    /\ resp = Response(201, "created", "created")
    /\ \E e \in EvidenceIds \ SeededEvidenceIds :
          /\ evidences[e].exists
          /\ evidences[e].uploader = "lawyer1"
          /\ evidences[e].verification_status = "pending"

\* C21: a petition has a publish timestamp only while its status is
\* published.
C21_TimestampOnlyIfPublished ==
    \A p \in Rows :
        (petitions[p].exists /\ petitions[p].published_at # NullTime)
        => petitions[p].status = "published"

\* C28: a petition created by the HTML form carries exactly the posted
\* evidence ids whose rows exist and were uploaded by the petition's creator;
\* other ids do not keep the petition from being created.
C28_OwnEvidenceOnly ==
    [][\A u \in FormUsers, d \in LifecycleDescriptions, ids \in EvidenceIdSets :
          ( /\ petition_create_attach(u, TRUE, d, "public", ids)
            /\ role[u] = "citizen" /\ d.raw > 0 )
          => \E p \in Rows :
                /\ ~petitions[p].exists
                /\ petitions'[p].exists
                /\ petitions'[p].creator = u
                /\ \A e \in petitions'[p].evidences :
                      /\ e \in ids
                      /\ evidences[e].exists
                      /\ evidences[e].uploader = petitions'[p].creator
                /\ \A e \in ids \cap EvidenceIds :
                      (evidences[e].exists /\ evidences[e].uploader = u)
                      => e \in petitions'[p].evidences]_vars

C28_Witness ==
    /\ resp = Response(302, "success", "Petition draft created successfully!")
    /\ \E p \in PetIds :
          /\ petitions[p].exists
          /\ petitions[p].creator = "citizen1"
          /\ petitions[p].evidences = {1}
    /\ \E e \in EvidenceIds \ SeededEvidenceIds : evidences[e].exists

\* a step of a petition operation or of an evidence upload
FrameStep ==
    \/ \E u \in Users, hasTitle \in BOOLEAN, d \in LifecycleDescriptions, v \in Visibilities :
          petition_create(u, hasTitle, d, v) \/ PetitionViewSet_create(u, hasTitle, d, v)
    \/ \E u \in Users, p \in Rows :
          submit_for_review(u, p) \/ join_petition(u, p, 1)
    \/ \E u \in Users, p \in Rows, t \in Times : approve_petition(u, p, t)
    \/ \E q \in InFlight : join_exists(q) \/ join_add(q) \/ join_count(q) \/ join_save(q)
    \/ \E u \in Viewers, body \in EvidenceBodies : EvidenceUploadAPI_create(u, body)

\* C22: a step that changes the audit log is not a step of a petition
\* operation (create, submit_for_review, approve, support) nor of an evidence
\* upload: each of them leaves the audit log as it is.
C22_AuditUntouched ==
    [][audit' # audit => ~FrameStep]_vars

\* operations have acted while the audit log holds an entry
C22_Witness ==
    /\ audit # << >>
    /\ resp = Response(200, "message", "submitted for review.")
    /\ \E p \in Rows : petitions[p].exists /\ petitions[p].supporter_count > 0
    /\ \E e \in EvidenceIds \ SeededEvidenceIds : evidences[e].exists

\* C23: in submit_for_review, approve and support on a petition the view
\* finds, an actor who fails the ownership or role check gets the 403 answer
\* and nothing is written, whatever the petition's status or supporters; an
\* actor who passes gets another answer.
C23_HardBeforeSoft ==
    [][\A u \in Users, p \in Rows :
          /\ (submit_for_review(u, p) /\ Found(p))
             => /\ resp'.code = 403
                   <=> (petitions[p].creator # u \/ role[u] # "citizen")
                /\ resp'.code = 403 => petitions' = petitions
          /\ \A t \in Times :
                (approve_petition(u, p, t) /\ Found(p))
                => /\ resp'.code = 403 <=> role[u] # "admin"
                   /\ resp'.code = 403 => petitions' = petitions
          /\ (join_petition(u, p, 1) /\ FoundPublished(p) /\ role[u] # "citizen")
             => /\ resp' = Response(403, "error", "Only citizens can support petitions.")
                /\ reqs' = reqs
                /\ petitions' = petitions]_vars

\* an account that already supports a petition and is no longer a citizen
\* has been refused
C23_Witness ==
    /\ resp = Response(403, "error", "Only citizens can support petitions.")
    /\ role["citizen2"] # "citizen"
    /\ \E p \in Rows : petitions[p].exists /\ "citizen2" \in petitions[p].supporters

\* C24: a viewset update or destroy that changes a petition is made by the
\* petition's creator or by an admin.
C24_OnlyCreatorOrAdminEdits ==
    [][\A u \in Viewers, p \in Rows :
          ( /\ \/ \E body \in UpdateBodies : PetitionViewSet_update(u, p, body)
               \/ PetitionViewSet_destroy(u, p)
            /\ petitions'[p] # petitions[p] )
          => \/ petitions[p].creator = u
             \/ is_authenticated(u) /\ role[u] = "admin"]_vars

\* C25: a petition with a supporter, or with supporter_count above 0, is
\* published.
C25_SupportersOnlyIfPublished ==
    \A p \in Rows :
        ( /\ petitions[p].exists
          /\ petitions[p].supporters # {} \/ petitions[p].supporter_count > 0 )
        => petitions[p].status = "published"

\* a supported petition next to a created petition under review
C25_Witness ==
    /\ \E p \in Rows : petitions[p].exists /\ petitions[p].supporter_count > 0
    /\ \E p \in PetIds : petitions[p].exists /\ petitions[p].status = "pending"

\* C26: a step that changes the status of a petition takes it from draft to
\* pending or from pending to published.
C26_StatusForward ==
    [][\A p \in Rows :
          ( /\ petitions[p].exists
            /\ petitions'[p].exists
            /\ petitions'[p].status # petitions[p].status )
          => \/ petitions[p].status = "draft" /\ petitions'[p].status = "pending"
             \/ petitions[p].status = "pending" /\ petitions'[p].status = "published"]_vars

\* an update has been saved while a created petition is under review
C26_Witness ==
    /\ resp = Response(200, "updated", "updated")
    /\ \E p \in PetIds : petitions[p].exists /\ petitions[p].status = "pending"

\* C27: no step removes an account from a petition's supporter set or lowers
\* its supporter_count.
C27_SupportNeverShrinks ==
    [][\A p \in Rows :
          (petitions[p].exists /\ petitions'[p].exists)
          => /\ petitions[p].supporters \subseteq petitions'[p].supporters
             /\ petitions'[p].supporter_count >= petitions[p].supporter_count]_vars

====
